---- MODULE Spec2Model ----
(***************************************************************************)
(* A3C training orchestration of Sc2Harvester: start_a3c_agent (main.py)   *)
(* and A3CAgent.reset / step / update / save_action_log / save_checkpoint  *)
(* / load_checkpoint (a3c_agent.py), as one state machine.                 *)
(*                                                                         *)
(* Worker threads interleave at every access to shared state: the class    *)
(* attributes STEP_COUNTER, EPISODE_COUNTER, LOCK and action_logs, the     *)
(* estimator parameters of the shared TensorFlow session, and the files    *)
(* under SAVE_PATH and LOG_PATH.  Purely local statements are folded into  *)
(* the step that precedes or follows them.                                 *)
(*                                                                         *)
(* run_loop of pysc2 is the caller of the agent: reset() when the thread   *)
(* starts and after the step whose observation was the last one, step()    *)
(* otherwise; it swallows KeyboardInterrupt and lets every other exception *)
(* end the thread.  Not modelled: self.steps, self.reward, episode_start,  *)
(* the TensorFlow summaries, and the reward and losses of a log entry.     *)
(***************************************************************************)
EXTENDS Integers, Sequences, FiniteSets, TLC

\* ------------------------------------------------------------------------
\* Program constants (scaled down) and bounds of the model
\* ------------------------------------------------------------------------
PARALLEL_THREADS == 2
MAX_STEPS_TOTAL == 4
CHECKPOINT == 2
NUM_BATCHES == 2
DETAILED_LOGS == 1
TRAINING == TRUE

\* longest episode the environment produces (obs.last() is forced then)
MaxEpisodeLen == 2
\* screen sizes range over 1..MaxResolution
MaxResolution == 2

Workers == 0 .. (PARALLEL_THREADS - 1)
Sizes == 1 .. MaxResolution

\* values of the environment's observations
ObsRewards == {1}
ObsMinerals == {5}
ObsVespene == {3}

\* ------------------------------------------------------------------------
\* Values
\* ------------------------------------------------------------------------
\* Python's None for a registry entry / a file that does not exist
None == [kind |-> "None", episodes |-> << >>]
\* a key that is not in the dict action_logs yet
Absent == [kind |-> "absent", episodes |-> << >>]
Tree(eps) == [kind |-> "tree", episodes |-> eps]

\* LOCK when no thread holds it
Unlocked == {}

\* estimator parameters: where they come from and how many training calls
\* have been applied to them since
Uninitialised == [origin |-> "uninitialised", updates |-> 0]
InitialWeights == [origin |-> "initializer", updates |-> 0]
PriorRunWeights == [origin |-> "checkpoint", updates |-> 0]
NoModel == [origin |-> "nofile", updates |-> 0]

NoPickle == << >>
NoError == "none"

VARIABLES
    A3C_SCREEN_SIZE_X,  \* configured screen width
    A3C_SCREEN_SIZE_Y,  \* configured screen height
    \* --- durable storage
    save_path,          \* os.path.exists(SAVE_PATH)
    python_vars,        \* SAVE_PATH/python_vars.pickle (NoPickle: no file)
    ckpt_model,         \* SAVE_PATH/SC2_A3C_harvester.ckpt
    log_files,          \* LOG_PATH/agentNN.xml, per agent id
    \* --- class attributes of A3CAgent and the shared session
    STEP_COUNTER,
    EPISODE_COUNTER,
    LOCK,               \* the set of threads inside `with A3CAgent.LOCK:`
    action_logs,        \* A3CAgent.action_logs
    weights,            \* the estimator's trainable parameters
    \* --- start_a3c_agent
    main_pc,
    main_i,             \* loop variable of the agent-creation / thread-start loops
    agents,             \* the list `agents`
    main_error,         \* exception that ended start_a3c_agent
    warned,             \* agent ids for which 'Could not find XML file' was printed
    \* --- per agent instance / worker thread
    pc,
    error,              \* exception that ended the worker's thread
    episodes,           \* self.episodes
    replay_states,      \* self.replay_states
    replay_actions,     \* self.replay_actions
    reg,                \* value loaded for the `+= 1` in progress
    global_episode,     \* local of reset()
    global_steps,       \* local of reset()
    update_from,        \* which method called update(): "reset" or "step"
    global_step_counter,\* local of update()
    batch,              \* loop variable i of the training loop in update()
    tree,               \* local `tree` of save_action_log while it is not registered
    other_episodes,     \* local of save_action_log
    ck_key,             \* position of save_checkpoint in action_logs.items()
    \* --- history (not program state)
    start_counters,     \* the counters when the first thread was started
    recorded,           \* per worker: transitions appended to replay_states
    episode_ids,        \* per worker: the global_episode values captured
    saw_max,            \* per worker: step() found STEP_COUNTER >= MAX_STEPS_TOTAL
    final_update_done,  \* per worker: the update() called from step() returned
    logged,             \* per worker: per save_action_log call, the final
                        \* transition and the entry as it was appended
    \* --- locals of one call, for the specifications of single methods
    update_locals,      \* locals of update()
    step_locals         \* locals of step()

storage_vars == << save_path, python_vars, ckpt_model, log_files >>
config_vars == << A3C_SCREEN_SIZE_X, A3C_SCREEN_SIZE_Y >>
shared_vars == << STEP_COUNTER, EPISODE_COUNTER, LOCK, action_logs, weights >>
main_vars == << main_pc, main_i, agents, main_error, warned >>
worker_vars == << pc, error, episodes, replay_states, replay_actions, reg,
                  global_episode, global_steps, update_from,
                  global_step_counter, batch, tree, other_episodes, ck_key >>
history_vars == << start_counters, recorded, episode_ids, saw_max,
                   final_update_done, logged >>
local_vars == << update_locals, step_locals >>
vars == << config_vars, storage_vars, shared_vars, main_vars, worker_vars,
           history_vars, local_vars >>

\* ------------------------------------------------------------------------
\* Helpers
\* ------------------------------------------------------------------------
RECURSIVE SumOver(_, _)
SumOver(f, S) ==
    IF S = {} THEN 0
    ELSE LET x == CHOOSE y \in S : TRUE IN f[x] + SumOver(f, S \ {x})

Range(s) == { s[i] : i \in 1 .. Len(s) }

\* int(b) of a Python bool
BoolToInt(b) == IF b THEN 1 ELSE 0

\* element p of a Python tuple or list, p counted from 0
At(t, p) == t[p + 1]
\* element [-1] of a Python list
Last(l) == l[Len(l)]

\* ------------------------------------------------------------------------
\* Checkpoint artefacts
\* ------------------------------------------------------------------------
\* the tuple pickled by save_checkpoint under configuration (x, y)
PickleDump(steps, eps, x, y) == << steps, eps, y, x >>

\* the (x, y) under which save_checkpoint pickled the tuple
SavedResolution(pv) == << At(pv, 3), At(pv, 2) >>

\* the (screen_x, screen_y) load_checkpoint reads out of the pickled tuple
LoadedResolution(pv) == << At(pv, 2), At(pv, 3) >>

\* the two asserts of load_checkpoint
ResolutionAccepted(pv, x, y) ==
    /\ LoadedResolution(pv)[1] = x
    /\ LoadedResolution(pv)[2] = y

\* A transition as stored in replay_states:
\* (screen, info, reward, collected_minerals, collected_vespene, last)
Transition(reward, minerals, vespene, last) ==
    << "screen", "info", reward, minerals, vespene, last >>

\* (action_id, action_target, valid_actions, random_action, random_position)
RecordedAction == << 0, << 0, 0 >>, {0}, FALSE, FALSE >>

\* An <episode> element of a log document
Episode(num_global, num_agent, minerals, gas, actions) ==
    [ num_global |-> num_global, num_agent |-> num_agent,
      total_collected_minerals |-> minerals, total_collected_gas |-> gas,
      actions |-> actions ]

\* A log document an earlier run left for agent k: one episode with its trace
PriorLog(k) ==
    Tree(<< Episode(k + 1, 1, 3, 1, << << 3, 1 >> >>) >>)

\* ------------------------------------------------------------------------
\* Initial states: the configuration and what is on disk
\* ------------------------------------------------------------------------
PriorSteps == { CHECKPOINT, MAX_STEPS_TOTAL }

\* nothing on disk
NothingSaved ==
    /\ save_path = FALSE
    /\ python_vars = NoPickle
    /\ ckpt_model = NoModel
    /\ log_files = [w \in Workers |-> None]

\* the class attributes as the class statement leaves them, no session yet
FreshShared ==
    /\ STEP_COUNTER = 0
    /\ EPISODE_COUNTER = 0
    /\ LOCK = Unlocked
    /\ action_logs = [w \in Workers |-> Absent]
    /\ weights = Uninitialised

\* start_a3c_agent before its first statement
FreshMain ==
    /\ main_pc = "create"
    /\ main_i = 0
    /\ agents = << >>
    /\ main_error = NoError
    /\ warned = {}

\* no agent instance exists yet
FreshControl ==
    /\ pc = [w \in Workers |-> "unborn"]
    /\ error = [w \in Workers |-> NoError]
    /\ episodes = [w \in Workers |-> 0]
    /\ reg = [w \in Workers |-> 0]
    /\ global_episode = [w \in Workers |-> 0]
    /\ global_steps = [w \in Workers |-> 0]
    /\ update_from = [w \in Workers |-> "reset"]
    /\ global_step_counter = [w \in Workers |-> 0]
    /\ batch = [w \in Workers |-> 0]
    /\ tree = [w \in Workers |-> None]
    /\ other_episodes = [w \in Workers |-> {}]
    /\ ck_key = [w \in Workers |-> 0]

FreshBuffers ==
    /\ replay_states = [w \in Workers |-> << >>]
    /\ replay_actions = [w \in Workers |-> << >>]

FreshHistory ==
    /\ start_counters = << 0, 0 >>
    /\ recorded = [w \in Workers |-> 0]
    /\ episode_ids = [w \in Workers |-> << >>]
    /\ saw_max = [w \in Workers |-> FALSE]
    /\ final_update_done = [w \in Workers |-> FALSE]
    /\ logged = [w \in Workers |-> << >>]

\* no method call is being followed
NoCall == [stage |-> "none"]

Init ==
    /\ A3C_SCREEN_SIZE_X \in Sizes
    /\ A3C_SCREEN_SIZE_Y \in Sizes
    /\ \/ NothingSaved
       \/ \* SAVE_PATH exists but holds no checkpoint
          /\ save_path = TRUE
          /\ python_vars = NoPickle
          /\ ckpt_model = NoModel
          /\ log_files = [w \in Workers |-> None]
       \/ \* a checkpoint an earlier run saved under configuration (px, py)
          /\ save_path = TRUE
          /\ \E s \in PriorSteps, px \in Sizes, py \in Sizes :
                python_vars = PickleDump(s, CHECKPOINT, px, py)
          /\ ckpt_model = PriorRunWeights
          /\ log_files \in [Workers -> {None} \cup { PriorLog(k) : k \in Workers }]
          /\ \A k \in Workers : log_files[k] \in {None, PriorLog(k)}
    /\ FreshShared
    /\ FreshMain
    /\ FreshControl
    /\ FreshBuffers
    /\ FreshHistory
    /\ update_locals = NoCall
    /\ step_locals = NoCall

\* ------------------------------------------------------------------------
\* start_a3c_agent (main.py)
\* ------------------------------------------------------------------------
\* number of agents created
parallel == IF ~TRAINING THEN 1 ELSE PARALLEL_THREADS

\* exception raised by load_checkpoint before it restores anything, if any
LoadError ==
    IF ~save_path THEN "FileNotFoundError"
    ELSE IF python_vars = NoPickle THEN "FileNotFoundError"
    ELSE IF ~ResolutionAccepted(python_vars, A3C_SCREEN_SIZE_X, A3C_SCREEN_SIZE_Y)
         THEN "AssertionError"
    ELSE NoError

\* every created agent is appended, whatever load_checkpoint returned
AdmitRegardless(list, i, loaded_successfully) == Append(list, i)

\* `if agent.load_checkpoint(): agents.append(agent)`
Admit(list, i, loaded_successfully) ==
    IF loaded_successfully THEN Append(list, i) ELSE list

\* one iteration of the agent-creation loop: A3CAgent(session, i, ...) and,
\* when SAVE_PATH exists, agent.load_checkpoint()
MainCreateAgent ==
    /\ main_pc = "create"
    /\ main_i < parallel
    /\ LET i == main_i
           found == log_files[i] # None
       IN
       /\ pc' = [pc EXCEPT ![i] = "created"]
       /\ IF ~save_path
          THEN /\ action_logs' = [action_logs EXCEPT ![i] = None]
               /\ agents' = Append(agents, i)
               /\ main_i' = main_i + 1
               /\ UNCHANGED << STEP_COUNTER, EPISODE_COUNTER, weights, episodes,
                               main_pc, main_error, warned >>
          ELSE IF LoadError = "FileNotFoundError"
          THEN /\ action_logs' = [action_logs EXCEPT ![i] = None]
               /\ main_pc' = "fatal"
               /\ main_error' = LoadError
               /\ UNCHANGED << STEP_COUNTER, EPISODE_COUNTER, weights, episodes,
                               agents, main_i, warned >>
          ELSE IF LoadError = "AssertionError"
          THEN /\ action_logs' = [action_logs EXCEPT ![i] = None]
               /\ STEP_COUNTER' = At(python_vars, 0)
               /\ EPISODE_COUNTER' = At(python_vars, 1)
               /\ main_pc' = "fatal"
               /\ main_error' = LoadError
               /\ UNCHANGED << weights, episodes, agents, main_i, warned >>
          ELSE /\ STEP_COUNTER' = At(python_vars, 0)
               /\ EPISODE_COUNTER' = At(python_vars, 1)
               /\ action_logs' = [action_logs EXCEPT
                                    ![i] = IF found THEN log_files[i] ELSE None]
               /\ episodes' = [episodes EXCEPT
                                 ![i] = IF found
                                        THEN Last(log_files[i].episodes).num_agent
                                        ELSE 0]
               /\ warned' = IF found THEN warned ELSE warned \cup {i}
               /\ weights' = ckpt_model
               /\ agents' = Admit(agents, i, found)
               /\ main_i' = main_i + 1
               /\ UNCHANGED << main_pc, main_error >>
    /\ UNCHANGED << config_vars, local_vars, storage_vars, LOCK, error, replay_states,
                    replay_actions, reg, global_episode, global_steps,
                    update_from, global_step_counter, batch, tree,
                    other_episodes, ck_key, history_vars >>

\* session.run(tf.global_variables_initializer())
MainInitVariables ==
    /\ main_pc = "create"
    /\ main_i = parallel
    /\ weights' = InitialWeights
    /\ main_pc' = "start"
    /\ main_i' = 0
    /\ start_counters' = << STEP_COUNTER, EPISODE_COUNTER >>
    /\ UNCHANGED << config_vars, local_vars, storage_vars, STEP_COUNTER, EPISODE_COUNTER,
                    LOCK, action_logs, agents, main_error, warned, worker_vars,
                    recorded, episode_ids, saw_max, final_update_done, logged >>

\* one iteration of the thread-start loop: t.start(); the thread runs
\* run_loop, whose first call into the agent is reset()
MainStartThread ==
    /\ main_pc = "start"
    /\ main_i < Len(agents)
    /\ pc' = [pc EXCEPT ![agents[main_i + 1]] = "reset"]
    /\ main_i' = main_i + 1
    /\ UNCHANGED << config_vars, local_vars, storage_vars, shared_vars, main_pc, agents,
                    main_error, warned, error, episodes, replay_states,
                    replay_actions, reg, global_episode, global_steps,
                    update_from, global_step_counter, batch, tree,
                    other_episodes, ck_key, history_vars >>

Terminated(w) == pc[w] \in {"interrupted", "crashed"}

\* for t in threads: t.join()
MainJoin ==
    /\ main_pc = "start"
    /\ main_i = Len(agents)
    /\ \A k \in 1 .. Len(agents) : Terminated(agents[k])
    /\ main_pc' = "done"
    /\ UNCHANGED << config_vars, local_vars, storage_vars, shared_vars, main_i, agents,
                    main_error, warned, worker_vars, history_vars >>

\* ------------------------------------------------------------------------
\* A3CAgent: the counter lock
\* ------------------------------------------------------------------------
\* the increments done without mutual exclusion
AcquireUnguarded(w) == TRUE

\* `with A3CAgent.LOCK:` can be entered by w
CanAcquire(w) == LOCK = Unlocked

\* what the worker thread does when an exception other than KeyboardInterrupt
\* leaves run_loop
Crash(w, exception) ==
    /\ pc' = [pc EXCEPT ![w] = "crashed"]
    /\ error' = [error EXCEPT ![w] = exception]

\* ------------------------------------------------------------------------
\* A3CAgent.reset
\* ------------------------------------------------------------------------
\* reset() up to the `with A3CAgent.LOCK:`
ResetBegin(w) ==
    /\ pc[w] = "reset"
    /\ IF ~TRAINING
       THEN /\ episodes' = [episodes EXCEPT ![w] = @ + 1]
            /\ pc' = [pc EXCEPT ![w] = "step"]
       ELSE IF Len(replay_states[w]) > 0
       THEN /\ episodes' = [episodes EXCEPT ![w] = @ + 1]
            /\ pc' = [pc EXCEPT ![w] = "r_acquire"]
       ELSE /\ pc' = [pc EXCEPT ![w] = "step"]
            /\ UNCHANGED episodes
    /\ UNCHANGED << config_vars, local_vars, storage_vars, shared_vars, main_vars, error,
                    replay_states, replay_actions, reg, global_episode,
                    global_steps, update_from, global_step_counter, batch,
                    tree, other_episodes, ck_key, history_vars >>

\* enter the lock and load EPISODE_COUNTER for `EPISODE_COUNTER += 1`
ResetLockLoad(w) ==
    /\ pc[w] = "r_acquire"
    /\ CanAcquire(w)
    /\ LOCK' = {w}
    /\ reg' = [reg EXCEPT ![w] = EPISODE_COUNTER]
    /\ pc' = [pc EXCEPT ![w] = "r_store"]
    /\ UNCHANGED << config_vars, local_vars, storage_vars, STEP_COUNTER, EPISODE_COUNTER,
                    action_logs, weights, main_vars, error, episodes,
                    replay_states, replay_actions, global_episode,
                    global_steps, update_from, global_step_counter, batch,
                    tree, other_episodes, ck_key, history_vars >>

\* store the incremented counter, read global_episode and global_steps,
\* leave the lock, call update()
ResetStoreRelease(w) ==
    /\ pc[w] = "r_store"
    /\ EPISODE_COUNTER' = reg[w] + 1
    /\ global_episode' = [global_episode EXCEPT ![w] = EPISODE_COUNTER']
    /\ global_steps' = [global_steps EXCEPT ![w] = STEP_COUNTER]
    /\ LOCK' = Unlocked
    /\ update_from' = [update_from EXCEPT ![w] = "reset"]
    /\ pc' = [pc EXCEPT ![w] = "u_snapshot"]
    /\ episode_ids' = [episode_ids EXCEPT ![w] = Append(@, EPISODE_COUNTER')]
    /\ UNCHANGED << config_vars, local_vars, storage_vars, STEP_COUNTER, action_logs,
                    weights, main_vars, error, episodes, replay_states,
                    replay_actions, reg, global_step_counter, batch, tree,
                    other_episodes, ck_key, start_counters, recorded, saw_max,
                    final_update_done, logged >>

\* reset() after save_action_log: clear the buffers, decide on a checkpoint
\* a checkpoint taken one episode early
CheckpointDueEarly(episode) == (episode + 1) % CHECKPOINT = 0

\* `if global_episode % CHECKPOINT == 0:` at the end of reset()
CheckpointDue(episode) == episode % CHECKPOINT = 0

ResetFinish(w) ==
    /\ pc[w] = "r_finish"
    /\ replay_states' = [replay_states EXCEPT ![w] = << >>]
    /\ replay_actions' = [replay_actions EXCEPT ![w] = << >>]
    /\ pc' = [pc EXCEPT ![w] = IF CheckpointDue(global_episode[w])
                                THEN "ck_pickle" ELSE "step"]
    /\ UNCHANGED << config_vars, local_vars, storage_vars, shared_vars, main_vars, error,
                    episodes, reg, global_episode, global_steps, update_from,
                    global_step_counter, batch, tree, other_episodes, ck_key,
                    history_vars >>

\* ------------------------------------------------------------------------
\* A3CAgent.step
\* ------------------------------------------------------------------------
\* the observations run_loop can hand to step() of w
LastFlags(w) ==
    IF Len(replay_states[w]) + 1 >= MaxEpisodeLen THEN {TRUE} ELSE BOOLEAN

\* `if A3CAgent.STEP_COUNTER >= MAX_STEPS_TOTAL:`, read outside the lock
StepsExhausted(counter) == counter >= MAX_STEPS_TOTAL

\* step() up to the `with A3CAgent.LOCK:`: the check of the step counter,
\* the choice of the action, the append to the buffers
Step(w) ==
    /\ pc[w] = "step"
    /\ IF StepsExhausted(STEP_COUNTER)
       THEN /\ update_from' = [update_from EXCEPT ![w] = "step"]
            /\ saw_max' = [saw_max EXCEPT ![w] = TRUE]
            /\ pc' = [pc EXCEPT ![w] = "u_snapshot"]
            /\ UNCHANGED << replay_states, replay_actions, recorded >>
       ELSE /\ \E reward \in ObsRewards, minerals \in ObsMinerals,
                  vespene \in ObsVespene, last \in LastFlags(w) :
                  replay_states' = [replay_states EXCEPT ![w] =
                      Append(@, Transition(reward, minerals, vespene, last))]
            /\ replay_actions' = [replay_actions EXCEPT ![w] =
                                    Append(@, RecordedAction)]
            /\ recorded' = [recorded EXCEPT ![w] = @ + 1]
            /\ pc' = [pc EXCEPT ![w] = "s_acquire"]
            /\ UNCHANGED << update_from, saw_max >>
    /\ UNCHANGED << config_vars, local_vars, storage_vars, shared_vars, main_vars, error,
                    episodes, reg, global_episode, global_steps,
                    global_step_counter, batch, tree, other_episodes, ck_key,
                    start_counters, episode_ids, final_update_done, logged >>

\* enter the lock and load STEP_COUNTER for `STEP_COUNTER += 1`
StepLockLoad(w) ==
    /\ pc[w] = "s_acquire"
    /\ CanAcquire(w)
    /\ LOCK' = {w}
    /\ reg' = [reg EXCEPT ![w] = STEP_COUNTER]
    /\ pc' = [pc EXCEPT ![w] = "s_store"]
    /\ UNCHANGED << config_vars, local_vars, storage_vars, STEP_COUNTER, EPISODE_COUNTER,
                    action_logs, weights, main_vars, error, episodes,
                    replay_states, replay_actions, global_episode,
                    global_steps, update_from, global_step_counter, batch,
                    tree, other_episodes, ck_key, history_vars >>

\* store the incremented counter, leave the lock, return the action;
\* run_loop calls reset() after the step whose observation was the last one
StepStoreRelease(w) ==
    /\ pc[w] = "s_store"
    /\ STEP_COUNTER' = reg[w] + 1
    /\ LOCK' = Unlocked
    /\ pc' = [pc EXCEPT ![w] = IF At(Last(replay_states[w]), 5)
                                THEN "reset" ELSE "step"]
    /\ UNCHANGED << config_vars, local_vars, storage_vars, EPISODE_COUNTER, action_logs,
                    weights, main_vars, error, episodes, replay_states,
                    replay_actions, reg, global_episode, global_steps,
                    update_from, global_step_counter, batch, tree,
                    other_episodes, ck_key, history_vars >>

\* ------------------------------------------------------------------------
\* A3CAgent.update
\* ------------------------------------------------------------------------
\* `with A3CAgent.LOCK:` snapshot of the step counter
UpdateSnapshot(w) ==
    /\ pc[w] = "u_snapshot"
    /\ CanAcquire(w)
    /\ global_step_counter' = [global_step_counter EXCEPT ![w] = STEP_COUNTER]
    /\ pc' = [pc EXCEPT ![w] = "u_arrays"]
    /\ UNCHANGED << config_vars, local_vars, storage_vars, shared_vars, main_vars, error,
                    episodes, replay_states, replay_actions, reg,
                    global_episode, global_steps, update_from, batch, tree,
                    other_episodes, ck_key, history_vars >>

\* from `self.replay_states[-1][-1]` to the split into NUM_BATCHES chunks
UpdateArrays(w) ==
    /\ pc[w] = "u_arrays"
    /\ IF Len(replay_states[w]) = 0
       THEN /\ Crash(w, "IndexError")
            /\ UNCHANGED batch
       ELSE /\ batch' = [batch EXCEPT ![w] = 0]
            /\ pc' = [pc EXCEPT ![w] = "u_train"]
            /\ UNCHANGED error
    /\ UNCHANGED << config_vars, local_vars, storage_vars, shared_vars, main_vars,
                    episodes, replay_states, replay_actions, reg,
                    global_episode, global_steps, update_from,
                    global_step_counter, tree, other_episodes, ck_key,
                    history_vars >>

\* one training call of the loop over the chunks; after the last one update()
\* returns, to reset() or to the `raise KeyboardInterrupt` of step()
UpdateTrain(w) ==
    /\ pc[w] = "u_train"
    /\ weights' = [weights EXCEPT !.updates = @ + 1]
    /\ IF batch[w] + 1 < NUM_BATCHES
       THEN /\ batch' = [batch EXCEPT ![w] = @ + 1]
            /\ UNCHANGED << pc, final_update_done >>
       ELSE /\ UNCHANGED batch
            /\ IF update_from[w] = "reset"
               THEN /\ pc' = [pc EXCEPT ![w] = "log_append"]
                    /\ UNCHANGED final_update_done
               ELSE /\ pc' = [pc EXCEPT ![w] = "interrupted"]
                    /\ final_update_done' =
                          [final_update_done EXCEPT ![w] = TRUE]
    /\ UNCHANGED << config_vars, local_vars, storage_vars, STEP_COUNTER, EPISODE_COUNTER,
                    LOCK, action_logs, main_vars, error, episodes,
                    replay_states, replay_actions, reg, global_episode,
                    global_steps, update_from, global_step_counter, tree,
                    other_episodes, ck_key, start_counters, recorded,
                    episode_ids, saw_max, logged >>

\* ------------------------------------------------------------------------
\* A3CAgent.save_action_log
\* ------------------------------------------------------------------------
\* list.sort(key=lambda tup: tup[1], reverse=True): stable, descending by the
\* second component of the (episode, value) pairs
RECURSIVE InsertDescending(_, _)
InsertDescending(x, sorted) ==
    IF sorted = << >> THEN << x >>
    ELSE IF sorted[1][2] > x[2]
         THEN << sorted[1] >> \o InsertDescending(x, Tail(sorted))
         ELSE << x >> \o sorted

RECURSIVE SortDescending(_)
SortDescending(l) ==
    IF l = << >> THEN << >>
    ELSE InsertDescending(l[1], SortDescending(Tail(l)))

\* l[:n]
Prefix(l, n) == SubSeq(l, 1, IF n < Len(l) THEN n ELSE Len(l))

\* minerals_per_episode as built before the sort
MineralsPerEpisode(doc, self_episodes, total_collected_minerals) ==
    << << self_episodes, total_collected_minerals >> >> \o
    [ i \in 1 .. Len(doc.episodes) |->
        << doc.episodes[i].num_agent,
           doc.episodes[i].total_collected_minerals >> ]

\* gas_per_episode as built before the sort
GasPerEpisode(doc, self_episodes, total_collected_gas) ==
    << << self_episodes, total_collected_gas >> >> \o
    [ i \in 1 .. Len(doc.episodes) |->
        << doc.episodes[i].num_agent, doc.episodes[i].total_collected_gas >> ]

KeptEpisodes(minerals_per_episode, gas_per_episode, self_episodes) ==
    { e[1] : e \in Range(Prefix(SortDescending(minerals_per_episode),
                                DETAILED_LOGS)) }
    \cup { e[1] : e \in Range(Prefix(SortDescending(gas_per_episode),
                                     DETAILED_LOGS)) }
    \cup ((self_episodes - DETAILED_LOGS + 1) .. self_episodes)

OtherEpisodes(minerals_per_episode, gas_per_episode, self_episodes) ==
    { e[1] : e \in Range(minerals_per_episode) \cup Range(gas_per_episode) }
    \ KeptEpisodes(minerals_per_episode, gas_per_episode, self_episodes)

\* the <action> children written for the new entry: per step the pair
\* (collected_minerals, collected_gas) read from replay_states[i][4] and [5]
ActionTrace(states) ==
    [ i \in 1 .. Len(states) |->
        << At(states[i], 4), BoolToInt(At(states[i], 5)) >> ]

\* remove the <action> children of the first episode whose num_agent is e
RECURSIVE StripFirst(_, _)
StripFirst(eps, e) ==
    IF eps = << >> THEN << >>
    ELSE IF eps[1].num_agent = e
         THEN << [eps[1] EXCEPT !.actions = << >>] >> \o Tail(eps)
         ELSE << eps[1] >> \o StripFirst(Tail(eps), e)

\* a loop over other_episodes that removes nothing
StripsNothing(eps, others) == eps

RECURSIVE StripAll(_, _)
StripAll(eps, others) ==
    IF others = {} THEN eps
    ELSE LET e == CHOOSE x \in others : TRUE
         IN StripAll(StripFirst(eps, e), others \ {e})

\* the document save_action_log of w works on: its own new tree while the
\* registry holds None, the registered tree otherwise
WorkingTree(w) == IF tree[w] # None THEN tree[w] ELSE action_logs[w]

\* save_action_log up to the end of the loop that writes the <action>
\* children: the new <episode> is appended to the tree
SaveActionLogAppend(w) ==
    /\ pc[w] = "log_append"
    /\ LET registered == action_logs[w] # None
           doc == IF registered THEN action_logs[w] ELSE Tree(<< >>)
           total_collected_minerals == At(Last(replay_states[w]), 4)
           total_collected_gas == BoolToInt(At(Last(replay_states[w]), 5))
           minerals_per_episode ==
               MineralsPerEpisode(doc, episodes[w], total_collected_minerals)
           gas_per_episode ==
               GasPerEpisode(doc, episodes[w], total_collected_gas)
           kept_episodes ==
               KeptEpisodes(minerals_per_episode, gas_per_episode, episodes[w])
           log_entry ==
               Episode(global_episode[w], episodes[w],
                       total_collected_minerals, total_collected_gas,
                       IF episodes[w] \in kept_episodes
                       THEN ActionTrace(replay_states[w]) ELSE << >>)
           grown == Tree(Append(doc.episodes, log_entry))
       IN
       /\ other_episodes' = [other_episodes EXCEPT ![w] =
              OtherEpisodes(minerals_per_episode, gas_per_episode, episodes[w])]
       /\ IF registered
          THEN /\ action_logs' = [action_logs EXCEPT ![w] = grown]
               /\ UNCHANGED tree
          ELSE /\ tree' = [tree EXCEPT ![w] = grown]
               /\ UNCHANGED action_logs
       /\ logged' = [logged EXCEPT ![w] =
              Append(@, [final |-> Last(replay_states[w]), entry |-> log_entry])]
    /\ pc' = [pc EXCEPT ![w] = "log_prune"]
    /\ UNCHANGED << config_vars, local_vars, storage_vars, STEP_COUNTER, EPISODE_COUNTER,
                    LOCK, weights, main_vars, error, episodes, replay_states,
                    replay_actions, reg, global_episode, global_steps,
                    update_from, global_step_counter, batch, ck_key,
                    start_counters, recorded, episode_ids, saw_max,
                    final_update_done >>

\* the loop over other_episodes and `A3CAgent.action_logs[self.agent_id] = tree`
SaveActionLogPrune(w) ==
    /\ pc[w] = "log_prune"
    /\ action_logs' = [action_logs EXCEPT ![w] =
           Tree(StripAll(WorkingTree(w).episodes, other_episodes[w]))]
    /\ tree' = [tree EXCEPT ![w] = None]
    /\ other_episodes' = [other_episodes EXCEPT ![w] = {}]
    /\ pc' = [pc EXCEPT ![w] = "r_finish"]
    /\ UNCHANGED << config_vars, local_vars, storage_vars, STEP_COUNTER, EPISODE_COUNTER,
                    LOCK, weights, main_vars, error, episodes, replay_states,
                    replay_actions, reg, global_episode, global_steps,
                    update_from, global_step_counter, batch, ck_key,
                    history_vars >>

\* ------------------------------------------------------------------------
\* A3CAgent.save_checkpoint
\* ------------------------------------------------------------------------
\* os.mkdir(SAVE_PATH) and pickle.dump of the counters and the resolution
SaveCheckpointPickle(w) ==
    /\ pc[w] = "ck_pickle"
    /\ save_path' = TRUE
    /\ python_vars' = PickleDump(global_steps[w], global_episode[w],
                                 A3C_SCREEN_SIZE_X, A3C_SCREEN_SIZE_Y)
    /\ pc' = [pc EXCEPT ![w] = "ck_model"]
    /\ UNCHANGED << config_vars, local_vars, ckpt_model, log_files, shared_vars, main_vars,
                    error, episodes, replay_states, replay_actions, reg,
                    global_episode, global_steps, update_from,
                    global_step_counter, batch, tree, other_episodes, ck_key,
                    history_vars >>

\* self.saver.save(...)
SaveCheckpointModel(w) ==
    /\ pc[w] = "ck_model"
    /\ ckpt_model' = weights
    /\ ck_key' = [ck_key EXCEPT ![w] = 0]
    /\ pc' = [pc EXCEPT ![w] = "ck_logs"]
    /\ UNCHANGED << config_vars, local_vars, save_path, python_vars, log_files,
                    shared_vars, main_vars, error, episodes, replay_states,
                    replay_actions, reg, global_episode, global_steps,
                    update_from, global_step_counter, batch, tree,
                    other_episodes, history_vars >>

\* one iteration of `for k, v in action_logs.items()`: v.getroot() and the
\* write of agentNN.xml; after the last one reset() returns to run_loop
SaveCheckpointLog(w) ==
    /\ pc[w] = "ck_logs"
    /\ LET k == ck_key[w]
           v == action_logs[k]
       IN IF v = None
          THEN /\ Crash(w, "AttributeError")
               /\ UNCHANGED << log_files, ck_key >>
          ELSE /\ log_files' = [log_files EXCEPT ![k] = v]
               /\ ck_key' = [ck_key EXCEPT ![w] = k + 1]
               /\ pc' = [pc EXCEPT ![w] = IF k + 1 < parallel
                                           THEN "ck_logs" ELSE "step"]
               /\ UNCHANGED error
    /\ UNCHANGED << config_vars, local_vars, save_path, python_vars, ckpt_model,
                    shared_vars, main_vars, episodes, replay_states,
                    replay_actions, reg, global_episode, global_steps,
                    update_from, global_step_counter, batch, tree,
                    other_episodes, history_vars >>

\* ------------------------------------------------------------------------
\* The system
\* ------------------------------------------------------------------------
Next ==
    \/ MainCreateAgent
    \/ MainInitVariables
    \/ MainStartThread
    \/ MainJoin
    \/ \E w \in Workers :
          \/ ResetBegin(w)
          \/ ResetLockLoad(w)
          \/ ResetStoreRelease(w)
          \/ ResetFinish(w)
          \/ Step(w)
          \/ StepLockLoad(w)
          \/ StepStoreRelease(w)
          \/ UpdateSnapshot(w)
          \/ UpdateArrays(w)
          \/ UpdateTrain(w)
          \/ SaveActionLogAppend(w)
          \/ SaveActionLogPrune(w)
          \/ SaveCheckpointPickle(w)
          \/ SaveCheckpointModel(w)
          \/ SaveCheckpointLog(w)

Spec == Init /\ [][Next]_vars

\* ------------------------------------------------------------------------
\* The program with estimator training calls that can fail
\* ------------------------------------------------------------------------
\* a failure that the training loop swallows, carrying on after update()
TrainFailureSwallowed(caller) ==
    IF caller = "reset" THEN "log_append" ELSE "interrupted"

\* where the worker is after `self.session.run` of the training loop raised:
\* neither update() nor reset() nor step() nor run_loop has a handler for it,
\* the exception ends the thread
AfterTrainFailure(caller) == "crashed"

\* the training call for chunk batch[w] raises
UpdateTrainFails(w) ==
    /\ pc[w] = "u_train"
    /\ pc' = [pc EXCEPT ![w] = AfterTrainFailure(update_from[w])]
    /\ error' = [error EXCEPT ![w] = "EstimatorError"]
    /\ UNCHANGED << config_vars, local_vars, storage_vars, shared_vars, main_vars,
                    episodes, replay_states, replay_actions, reg,
                    global_episode, global_steps, update_from,
                    global_step_counter, batch, tree, other_episodes, ck_key,
                    history_vars >>

FailNext ==
    \/ Next
    \/ \E w \in Workers : UpdateTrainFails(w)

FailSpec == Init /\ [][FailNext]_vars

\* ------------------------------------------------------------------------
\* The choice of the action in step() and the rows update() builds from it
\* ------------------------------------------------------------------------
\* self.executable_actions_ids, shortened: no_op, Train_SCV_quick,
\* select_point, in the order of the list
EXECUTABLE_ACTIONS_IDS == << 0, 490, 2 >>

\* actions.FUNCTIONS[action_id].args, by name
ActionArgs(action_id) ==
    IF action_id = 2 THEN << "select_point_act", "screen" >>
    ELSE IF action_id = 490 THEN << "queued" >>
    ELSE << >>

\* obs.observation['available_actions']: no_op is always available, 1
\* (move_camera) is an action the agent does not execute
AvailableActionSets == { {0} \cup S : S \in SUBSET {1, 2, 490} }

\* the outputs of the policy head, one weight per executable action
Probabilities == [1 .. Len(EXECUTABLE_ACTIONS_IDS) -> {1, 2}]

\* list.index(x)
IndexOf(list, x) == (CHOOSE i \in 1 .. Len(list) : list[i] = x) - 1

\* a mask that hides nothing
MaskNothing(available_actions) ==
    [k \in 1 .. Len(EXECUTABLE_ACTIONS_IDS) |-> FALSE]

\* `set(available_actions).intersection(self.executable_actions_ids)`
ValidActions(available_actions) ==
    available_actions \cap Range(EXECUTABLE_ACTIONS_IDS)

\* valid_actions_mask: True (masked out) unless the action is valid
ValidActionsMask(available_actions) ==
    [k \in 1 .. Len(EXECUTABLE_ACTIONS_IDS) |->
        ~(\E i \in available_actions :
              /\ i \in ValidActions(available_actions)
              /\ IndexOf(EXECUTABLE_ACTIONS_IDS, i) = k - 1)]

\* np.argmax(np.ma.array(values, mask=mask)): the first position with the
\* highest unmasked value, position 0 if everything is masked
ArgMax(values, mask) ==
    LET open == { k \in 1 .. Len(values) : ~mask[k] }
    IN  IF open = {} THEN 0
        ELSE (CHOOSE k \in open :
                 \A j \in open :
                     values[j] < values[k] \/ (values[j] = values[k] /\ k <= j)) - 1

\* action_id before the exploration override
GreedyAction(non_spatial_action, available_actions) ==
    At(EXECUTABLE_ACTIONS_IDS,
       ArgMax(non_spatial_action, ValidActionsMask(available_actions)))

\* `(action_target // A3C_SCREEN_SIZE_Y, action_target % A3C_SCREEN_SIZE_X)`
GreedyTarget(spatial_argmax) ==
    << spatial_argmax \div A3C_SCREEN_SIZE_Y, spatial_argmax % A3C_SCREEN_SIZE_X >>

\* `(np.random.randint(0, A3C_SCREEN_SIZE_Y - 1),
\*   np.random.randint(0, A3C_SCREEN_SIZE_X - 1))`: randint draws from
\* low .. high - 1 and raises ValueError when that range is empty
RandomTargets ==
    { << r, c >> : r \in 0 .. (A3C_SCREEN_SIZE_Y - 2),
                   c \in 0 .. (A3C_SCREEN_SIZE_X - 2) }

\* the arguments of the FunctionCall step() returns
Arguments(action_id, action_target) ==
    [k \in 1 .. Len(ActionArgs(action_id)) |->
        IF ActionArgs(action_id)[k] = "screen" THEN action_target ELSE << 0 >>]

\* valid_actions_indices of update(): 1 at the positions of the recorded
\* valid actions
ValidActionsIndices(valid_actions) ==
    [k \in 1 .. Len(EXECUTABLE_ACTIONS_IDS) |->
        IF \E j \in valid_actions : IndexOf(EXECUTABLE_ACTIONS_IDS, j) = k - 1
        THEN 1 ELSE 0]

\* `index = action_target[1] * A3C_SCREEN_SIZE_Y + action_target[0]`
SpatialIndex(action_target) ==
    At(action_target, 1) * A3C_SCREEN_SIZE_Y + At(action_target, 0)

\* what the loop of update() writes into row i of the action arrays from
\* entry i of replay_actions; selected is the position set to 1 in
\* spatial_action_selected, -1 if the row stays all zero
ActionRow(action) ==
    LET action_id == At(action, 0)
        action_target == At(action, 1)
        valid_actions == At(action, 2)
        has_spatial_action ==
            \E k \in 1 .. Len(ActionArgs(action_id)) :
                ActionArgs(action_id)[k] = "screen"
    IN  [valid_non_spatial_action |-> ValidActionsIndices(valid_actions),
         non_spatial_action_selected |->
             [k \in 1 .. Len(EXECUTABLE_ACTIONS_IDS) |->
                 IF IndexOf(EXECUTABLE_ACTIONS_IDS, action_id) = k - 1
                 THEN 1 ELSE 0],
         has_spatial_action |-> BoolToInt(has_spatial_action),
         spatial_action_selected |->
             IF has_spatial_action THEN SpatialIndex(action_target) ELSE 0 - 1]

\* the positions spatial_action_selected[i, index] can take
GridIndices == 0 .. (A3C_SCREEN_SIZE_X * A3C_SCREEN_SIZE_Y - 1)

\* the rows for a whole reversed buffer
ActionRows(reversed_actions) ==
    [k \in 1 .. Len(reversed_actions) |-> ActionRow(reversed_actions[k])]

\* no `spatial_action_selected[i, index] = 1` raises IndexError
RowsInRange(rows) ==
    \A k \in 1 .. Len(rows) :
        rows[k].has_spatial_action = 1 =>
            rows[k].spatial_action_selected \in GridIndices

\* ------------------------------------------------------------------------
\* A3CAgent.update, the arrays it computes from one trajectory
\* ------------------------------------------------------------------------
\* DISCOUNT_FACTOR = 0.99 as numerator and denominator
DISCOUNT_FACTOR == << 99, 100 >>

\* longest trajectory drawn
MaxTrajectory == 3
\* rewards an observation can carry, values the estimator can return
TrajectoryRewards == {1, 2, 3}
EstimatorValues == {0, 10}

RECURSIVE Pow(_, _)
Pow(b, e) == IF e = 0 THEN 1 ELSE b * Pow(b, e - 1)

RECURSIVE SumSeq(_)
SumSeq(s) == IF s = << >> THEN 0 ELSE Head(s) + SumSeq(Tail(s))

\* list.reverse()
Reverse(s) == [i \in 1 .. Len(s) |-> s[Len(s) + 1 - i]]

\* the buffers step() leaves behind for a trajectory with the given rewards,
\* whose last observation has the given last flag
Trajectory(rewards, last) ==
    [i \in 1 .. Len(rewards) |->
        Transition(rewards[i], 5, 3, IF i = Len(rewards) THEN last ELSE FALSE)]

\* an R that is the estimator's value whatever the last transition is
BootstrapAlways(last_state_is_terminal, value) ==
    [R |-> value, value_queried |-> TRUE]

\* `if last_state_is_terminal: R = 0 else: R = session.run(self.nn.value)[0]`
Bootstrap(last_state_is_terminal, value) ==
    IF last_state_is_terminal
    THEN [R |-> 0, value_queried |-> FALSE]
    ELSE [R |-> value, value_queried |-> TRUE]

\* cumulated_rewards[i] of the loop over the reversed buffer, as the
\* numerator of a fraction with denominator DISCOUNT_FACTOR[2] ^ i
RECURSIVE CumulatedReward(_, _, _)
CumulatedReward(reversed_states, R, i) ==
    IF i = 0
    THEN R
    ELSE LET reward == At(reversed_states[i + 1], 2)
         IN  reward * Pow(DISCOUNT_FACTOR[2], i)
                 + DISCOUNT_FACTOR[1] * CumulatedReward(reversed_states, R, i - 1)

\* undiscounted_rewards[i] of the same loop
UndiscountedReward(reversed_states, R, i) ==
    IF i = 0 THEN R ELSE At(reversed_states[i + 1], 2)

\* chunks that all have len(ary) // n rows, the remainder left out
SplitTruncating(ary, n) ==
    LET each == Len(ary) \div n
    IN  [j \in 1 .. n |-> SubSeq(ary, (j - 1) * each + 1, j * each)]

\* chunks of len(ary) // n rows, the last one with the remainder added
SplitRemainderLast(ary, n) ==
    LET each == Len(ary) \div n
    IN  [j \in 1 .. n |->
            SubSeq(ary, (j - 1) * each + 1,
                   IF j = n THEN Len(ary) ELSE j * each)]

\* np.array_split(ary, n): n chunks, the first len(ary) % n of them with
\* len(ary) // n + 1 rows, the others with len(ary) // n rows
ArraySplit(ary, n) ==
    LET each == Len(ary) \div n
        extras == Len(ary) % n
        start(j) == j * each + (IF j < extras THEN j ELSE extras)
    IN  [j \in 1 .. n |-> SubSeq(ary, start(j - 1) + 1, start(j))]

\* a call of update() on the buffer of worker 0; value is what the estimator
\* returns for the last state if it is asked
UpdateInit ==
    /\ A3C_SCREEN_SIZE_X \in Sizes
    /\ A3C_SCREEN_SIZE_Y \in Sizes
    /\ NothingSaved
    /\ STEP_COUNTER = 0
    /\ EPISODE_COUNTER = 0
    /\ LOCK = Unlocked
    /\ action_logs = [w \in Workers |-> None]
    /\ weights = InitialWeights
    /\ FreshMain
    /\ FreshControl
    /\ FreshHistory
    /\ \E T \in 1 .. MaxTrajectory, last \in BOOLEAN :
          \E rewards \in [1 .. T -> TrajectoryRewards] :
              /\ replay_states =
                    [w \in Workers |-> IF w = 0 THEN Trajectory(rewards, last)
                                                ELSE << >>]
              /\ replay_actions =
                    [w \in Workers |-> IF w = 0 THEN [i \in 1 .. T |-> RecordedAction]
                                                ELSE << >>]
    /\ \E value \in EstimatorValues :
          update_locals = [stage |-> "called", value |-> value]
    /\ step_locals = NoCall

\* last_state_is_terminal and R
UpdateBootstrap ==
    /\ update_locals.stage = "called"
    /\ LET last_state_is_terminal == At(Last(replay_states[0]), 5)
           b == Bootstrap(last_state_is_terminal, update_locals.value)
       IN  update_locals' =
               [stage |-> "bootstrapped",
                value |-> update_locals.value,
                last_state_is_terminal |-> last_state_is_terminal,
                R |-> b.R,
                value_queried |-> b.value_queried]
    /\ UNCHANGED << config_vars, storage_vars, shared_vars, main_vars,
                    worker_vars, history_vars, step_locals >>

\* both buffers are reversed and the loop over them fills the arrays;
\* rows[i] stands for row i of the state, mask, one-hot and flag arrays,
\* all filled from entry i of the reversed buffers
UpdateReturns ==
    /\ update_locals.stage = "bootstrapped"
    /\ replay_states' = [replay_states EXCEPT ![0] = Reverse(@)]
    /\ replay_actions' = [replay_actions EXCEPT ![0] = Reverse(@)]
    /\ LET reversed == Reverse(replay_states[0])
           T == Len(reversed)
           R == update_locals.R
           undiscounted_rewards ==
               [k \in 1 .. T |-> UndiscountedReward(reversed, R, k - 1)]
           action_rows == ActionRows(Reverse(replay_actions[0]))
       IN  update_locals' =
               IF ~RowsInRange(action_rows)
               THEN [stage |-> "raised", error |-> "IndexError"]
               ELSE
               [stage |-> "arrays",
                value |-> update_locals.value,
                last_state_is_terminal |-> update_locals.last_state_is_terminal,
                R |-> R,
                value_queried |-> update_locals.value_queried,
                rows |-> [k \in 1 .. T |-> k - 1],
                action_rows |-> action_rows,
                cumulated_rewards |->
                    [k \in 1 .. T |-> CumulatedReward(reversed, R, k - 1)],
                total_rewards |-> SumSeq(undiscounted_rewards)]
    /\ UNCHANGED << config_vars, storage_vars, shared_vars, main_vars, pc,
                    error, episodes, reg, global_episode, global_steps,
                    update_from, global_step_counter, batch, tree,
                    other_episodes, ck_key, history_vars, step_locals >>

\* the np.array_split calls
UpdateSplit ==
    /\ update_locals.stage = "arrays"
    /\ update_locals' =
           [update_locals EXCEPT
               !.stage = "split",
               !.rows = ArraySplit(@, NUM_BATCHES),
               !.action_rows = ArraySplit(@, NUM_BATCHES),
               !.cumulated_rewards = ArraySplit(@, NUM_BATCHES)]
    /\ UNCHANGED << config_vars, storage_vars, shared_vars, main_vars,
                    worker_vars, history_vars, step_locals >>

\* the training loop, the second reversal of the buffers and the return
UpdateReturn ==
    /\ update_locals.stage = "split"
    /\ replay_states' = [replay_states EXCEPT ![0] = Reverse(@)]
    /\ replay_actions' = [replay_actions EXCEPT ![0] = Reverse(@)]
    /\ weights' = [weights EXCEPT !.updates = @ + NUM_BATCHES]
    /\ update_locals' = [update_locals EXCEPT !.stage = "returned"]
    /\ UNCHANGED << config_vars, storage_vars, STEP_COUNTER, EPISODE_COUNTER,
                    LOCK, action_logs, main_vars, pc, error, episodes, reg,
                    global_episode, global_steps, update_from,
                    global_step_counter, batch, tree, other_episodes, ck_key,
                    history_vars, step_locals >>

UpdateNext ==
    \/ UpdateBootstrap
    \/ UpdateReturns
    \/ UpdateSplit
    \/ UpdateReturn

UpdateSpec == UpdateInit /\ [][UpdateNext]_vars

\* ------------------------------------------------------------------------
\* A3CAgent.step, one call followed through its statements
\* ------------------------------------------------------------------------
\* EXPLORATION_RATE = 0.2 and EPSILON = 0.05 as numerator and denominator
EXPLORATION_RATE == << 1, 5 >>
EPSILON == << 5, 100 >>

\* values np.random.rand() can return, as numerator and denominator
RandDraws == { << 0, 100 >>, << 50, 100 >>, << 90, 100 >> }

\* a < b for fractions with positive denominators
Less(a, b) == a[1] * b[2] < b[1] * a[2]

\* `explore = (STEP_COUNTER + ((1 - rate) * MAX_STEPS_TOTAL)) / MAX_STEPS_TOTAL`
\* as numerator and denominator
Explore(counter) ==
    << counter * EXPLORATION_RATE[2]
           + (EXPLORATION_RATE[2] - EXPLORATION_RATE[1]) * MAX_STEPS_TOTAL,
       EXPLORATION_RATE[2] * MAX_STEPS_TOTAL >>

\* `np.random.rand() > explore or np.random.rand() < self.epsilon`
Override(explore, first_draw, second_draw) ==
    Less(explore, first_draw) \/ Less(second_draw, EPSILON)

\* step(obs) is called in worker 0 while the other worker runs
StepInit ==
    /\ A3C_SCREEN_SIZE_X \in Sizes
    /\ A3C_SCREEN_SIZE_Y \in Sizes
    /\ NothingSaved
    /\ STEP_COUNTER \in 0 .. MAX_STEPS_TOTAL
    /\ EPISODE_COUNTER = 0
    /\ LOCK = Unlocked
    /\ action_logs = [w \in Workers |-> None]
    /\ weights = InitialWeights
    /\ FreshMain
    /\ FreshControl
    /\ FreshBuffers
    /\ FreshHistory
    /\ update_locals = NoCall
    /\ step_locals = [stage |-> "called"]

\* `if A3CAgent.STEP_COUNTER >= MAX_STEPS_TOTAL:`
StepCheck ==
    /\ step_locals.stage = "called"
    /\ step_locals' =
           [stage |-> IF StepsExhausted(STEP_COUNTER) THEN "final_update"
                                                      ELSE "checked"]
    /\ UNCHANGED << config_vars, storage_vars, shared_vars, main_vars,
                    worker_vars, history_vars, update_locals >>

\* the other worker, having found the counter below the maximum, increments
\* it under the lock
OtherWorkerIncrements ==
    /\ step_locals.stage \in {"called", "checked"}
    /\ ~StepsExhausted(STEP_COUNTER)
    /\ CanAcquire(1)
    /\ STEP_COUNTER' = STEP_COUNTER + 1
    /\ UNCHANGED << config_vars, storage_vars, EPISODE_COUNTER, LOCK,
                    action_logs, weights, main_vars, worker_vars,
                    history_vars, local_vars >>

\* the estimator's outputs for the observation, the greedy action and
\* target, and under `if TRAINING:` the schedule value from the step counter
\* as it is now and the two overrides, each decided by two draws
StepChoose ==
    /\ step_locals.stage = "checked"
    /\ TRAINING
    /\ \E d1 \in RandDraws, d2 \in RandDraws, d3 \in RandDraws, d4 \in RandDraws,
          available_actions \in AvailableActionSets,
          non_spatial_action \in Probabilities,
          spatial_argmax \in GridIndices :
          LET explore == Explore(STEP_COUNTER)
              valid_actions == ValidActions(available_actions)
              random_action == Override(explore, d1, d2)
              random_position == Override(explore, d3, d4)
          IN  \E action_id \in
                     (IF random_action THEN valid_actions
                      ELSE {GreedyAction(non_spatial_action, available_actions)}) :
                  IF random_position /\ RandomTargets = {}
                  THEN step_locals' = [stage |-> "raised", error |-> "ValueError"]
                  ELSE LET targets == IF random_position THEN RandomTargets
                                      ELSE {GreedyTarget(spatial_argmax)}
                       IN \E action_target \in targets :
                          step_locals' =
                              [stage |-> "chosen",
                               counter |-> STEP_COUNTER,
                               explore |-> explore,
                               available_actions |-> available_actions,
                               non_spatial_action |-> non_spatial_action,
                               spatial_argmax |-> spatial_argmax,
                               action_id |-> action_id,
                               targets |-> targets,
                               action_target |-> action_target,
                               valid_actions |-> valid_actions,
                               random_action |-> random_action,
                               random_position |-> random_position,
                               returned |-> << >>]
    /\ UNCHANGED << config_vars, storage_vars, shared_vars, main_vars,
                    worker_vars, history_vars, update_locals >>

\* the appends to the two buffers
StepRecord ==
    /\ step_locals.stage = "chosen"
    /\ \E reward \in ObsRewards, minerals \in ObsMinerals,
          vespene \in ObsVespene, last \in BOOLEAN :
          replay_states' = [replay_states EXCEPT ![0] =
              Append(@, Transition(reward, minerals, vespene, last))]
    /\ replay_actions' = [replay_actions EXCEPT ![0] =
           Append(@, << step_locals.action_id, step_locals.action_target,
                        step_locals.valid_actions, step_locals.random_action,
                        step_locals.random_position >>)]
    /\ step_locals' = [step_locals EXCEPT !.stage = "recorded"]
    /\ UNCHANGED << config_vars, storage_vars, shared_vars, main_vars, pc,
                    error, episodes, reg, global_episode, global_steps,
                    update_from, global_step_counter, batch, tree,
                    other_episodes, ck_key, history_vars, update_locals >>

\* the arguments, `with A3CAgent.LOCK: A3CAgent.STEP_COUNTER += 1` and the
\* return of the FunctionCall
StepIncrement ==
    /\ step_locals.stage = "recorded"
    /\ CanAcquire(0)
    /\ STEP_COUNTER' = STEP_COUNTER + 1
    /\ step_locals' =
           [step_locals EXCEPT
               !.stage = "returned",
               !.returned = << step_locals.action_id,
                               Arguments(step_locals.action_id,
                                         step_locals.action_target) >>]
    /\ UNCHANGED << config_vars, storage_vars, EPISODE_COUNTER, LOCK,
                    action_logs, weights, main_vars, worker_vars,
                    history_vars, update_locals >>

\* the loop of the update() that later runs on the buffer: the rows of the
\* action arrays for the reversed replay_actions
UpdateActionRows ==
    /\ step_locals.stage = "returned"
    /\ update_locals = NoCall
    /\ LET action_rows == ActionRows(Reverse(replay_actions[0]))
       IN  update_locals' =
               IF ~RowsInRange(action_rows)
               THEN [stage |-> "raised", error |-> "IndexError"]
               ELSE [stage |-> "rows", action_rows |-> action_rows]
    /\ UNCHANGED << config_vars, storage_vars, shared_vars, main_vars,
                    worker_vars, history_vars, step_locals >>

StepNext ==
    \/ StepCheck
    \/ OtherWorkerIncrements
    \/ StepChoose
    \/ StepRecord
    \/ StepIncrement
    \/ UpdateActionRows

StepSpec == StepInit /\ [][StepNext]_vars

\* ------------------------------------------------------------------------
\* A3CAgent.save_action_log, called episode after episode in one worker
\* ------------------------------------------------------------------------
\* number of episodes logged, and the resource counters drawn for them
MaxLogged == 4
Counters == 1 .. MaxLogged

\* worker 0 is running, nothing logged yet
LogInit ==
    /\ A3C_SCREEN_SIZE_X = MaxResolution
    /\ A3C_SCREEN_SIZE_Y = MaxResolution
    /\ NothingSaved
    /\ STEP_COUNTER = 0
    /\ EPISODE_COUNTER = 0
    /\ LOCK = Unlocked
    /\ action_logs = [w \in Workers |-> IF w = 0 THEN None ELSE Absent]
    /\ weights = InitialWeights
    /\ FreshMain
    /\ pc = [w \in Workers |-> IF w = 0 THEN "step" ELSE "unborn"]
    /\ error = [w \in Workers |-> NoError]
    /\ episodes = [w \in Workers |-> 0]
    /\ reg = [w \in Workers |-> 0]
    /\ global_episode = [w \in Workers |-> 0]
    /\ global_steps = [w \in Workers |-> 0]
    /\ update_from = [w \in Workers |-> "reset"]
    /\ global_step_counter = [w \in Workers |-> 0]
    /\ batch = [w \in Workers |-> 0]
    /\ tree = [w \in Workers |-> None]
    /\ other_episodes = [w \in Workers |-> {}]
    /\ ck_key = [w \in Workers |-> 0]
    /\ FreshBuffers
    /\ FreshHistory
    /\ update_locals = NoCall
    /\ step_locals = NoCall

\* the mineral and the gas counters of the final transitions logged so far
MineralsLogged(w) == { At(logged[w][i].final, 3) : i \in 1 .. Len(logged[w]) }
GasLogged(w) == { At(logged[w][i].final, 4) : i \in 1 .. Len(logged[w]) }

\* reset() after save_action_log (the buffers are cleared), the next episode
\* of one step whose observation carries a mineral counter no earlier episode
\* ended with and any gas counter, and the reset() that follows it up to the
\* return of update()
LogEpisode ==
    /\ pc[0] \in {"step", "r_finish"}
    /\ episodes[0] < MaxLogged
    /\ \E minerals \in Counters \ MineralsLogged(0),
          vespene \in Counters, reward \in ObsRewards :
          replay_states' = [replay_states EXCEPT ![0] =
              << Transition(reward, minerals, vespene, TRUE) >>]
    /\ replay_actions' = [replay_actions EXCEPT ![0] = << RecordedAction >>]
    /\ STEP_COUNTER' = STEP_COUNTER + 1
    /\ EPISODE_COUNTER' = EPISODE_COUNTER + 1
    /\ episodes' = [episodes EXCEPT ![0] = @ + 1]
    /\ global_episode' = [global_episode EXCEPT ![0] = EPISODE_COUNTER + 1]
    /\ global_steps' = [global_steps EXCEPT ![0] = STEP_COUNTER + 1]
    /\ global_step_counter' = [global_step_counter EXCEPT ![0] = STEP_COUNTER + 1]
    /\ weights' = [weights EXCEPT !.updates = @ + NUM_BATCHES]
    /\ recorded' = [recorded EXCEPT ![0] = @ + 1]
    /\ episode_ids' = [episode_ids EXCEPT ![0] = Append(@, EPISODE_COUNTER + 1)]
    /\ pc' = [pc EXCEPT ![0] = "log_append"]
    /\ UNCHANGED << config_vars, local_vars, storage_vars, LOCK, action_logs,
                    main_vars, error, reg, update_from, batch, tree,
                    other_episodes, ck_key, start_counters, saw_max,
                    final_update_done, logged >>

LogNext ==
    \/ LogEpisode
    \/ SaveActionLogAppend(0)
    \/ SaveActionLogPrune(0)

LogSpec == LogInit /\ [][LogNext]_vars

\* ------------------------------------------------------------------------
\* Properties
\* ------------------------------------------------------------------------
Started(w) == pc[w] \notin {"unborn", "created"}
ThreadsRunning == main_pc \in {"start", "done"}
Configured == << A3C_SCREEN_SIZE_X, A3C_SCREEN_SIZE_Y >>
Captured == [w \in Workers |-> Len(episode_ids[w])]

\* no worker is between the append of a transition and the store of the step
\* counter, or between the start of a non-empty reset() and the store of the
\* episode counter
Quiescent ==
    \A w \in Workers :
        pc[w] \notin {"s_acquire", "s_store", "r_acquire", "r_store"}

\* C1: no counter update is lost.  At every quiescent point the step counter
\* is its value at thread start plus the number of transitions all workers
\* recorded, and the episode counter is its value at thread start plus the
\* number of reset() calls that found a non-empty buffer.
C1_NoLostUpdate ==
    (ThreadsRunning /\ Quiescent) =>
        /\ STEP_COUNTER = start_counters[1] + SumOver(recorded, Workers)
        /\ EPISODE_COUNTER = start_counters[2] + SumOver(Captured, Workers)

\* both workers have recorded transitions and finished episodes
C1_Witness ==
    /\ ThreadsRunning
    /\ Quiescent
    /\ \A w \in Workers : recorded[w] >= 1 /\ Captured[w] >= 1
    /\ SumOver(recorded, Workers) >= 3

\* C2: the global episode number a worker reads right after its own increment
\* is unique among all episodes of all workers, and it is the number its log
\* entry carries.
C2_UniqueEpisodeNumber ==
    /\ \A w1 \in Workers, w2 \in Workers :
          \A i \in 1 .. Captured[w1], j \in 1 .. Captured[w2] :
              (episode_ids[w1][i] = episode_ids[w2][j]) => (w1 = w2 /\ i = j)
    /\ \A w \in Workers :
          pc[w] \in {"log_prune", "r_finish"} =>
              /\ global_episode[w] = Last(episode_ids[w])
              /\ Last(WorkingTree(w).episodes).num_global = global_episode[w]

\* two workers have each been assigned episode numbers, one of them twice
C2_Witness ==
    /\ \A w \in Workers : Captured[w] >= 1
    /\ \E w \in Workers : Captured[w] >= 2 /\ pc[w] = "r_finish"

\* C3 (as claimed): a worker ends only from step(), after it saw the step
\* counter at or above the maximum, by the stop signal raised after its final
\* update() ran to completion.
C3_OrderedShutdown ==
    \A w \in Workers :
        Terminated(w) =>
            /\ saw_max[w]
            /\ pc[w] = "interrupted"
            /\ final_update_done[w]

\* C4 (as claimed): once step() saw the counter at or above the maximum, the
\* final update() works on a buffer of length >= 1 and the worker ends
\* without an error.
C4_ExhaustionIsNoError ==
    \A w \in Workers :
        saw_max[w] =>
            /\ error[w] = NoError
            /\ pc[w] \in {"u_arrays", "u_train", "interrupted"} =>
                  Len(replay_states[w]) >= 1

\* C5 (as claimed): a checkpoint saved under the configured resolution loads
\* under that configuration, for every (X, Y): the load raises nothing, the
\* counters are the saved ones and the resolution read back is (X, Y).
C5_CheckpointRoundTrip ==
    ( /\ pc[0] = "created"
      /\ python_vars # NoPickle
      /\ SavedResolution(python_vars) = Configured ) =>
        /\ main_error = NoError
        /\ STEP_COUNTER = At(python_vars, 0)
        /\ EPISODE_COUNTER = At(python_vars, 1)
        /\ LoadedResolution(python_vars) = Configured

\* C6 (as claimed): with SAVE_PATH present but no checkpoint in it, or with a
\* checkpoint saved under a resolution that differs from the configured one in
\* either axis, startup ends in a fatal error: no weights are restored, no
\* agent is admitted and no thread is started.
C6_LoadFailsFast ==
    ( /\ pc[0] # "unborn"
      /\ save_path
      /\ \/ python_vars = NoPickle
         \/ SavedResolution(python_vars) # Configured ) =>
        /\ main_pc = "fatal"
        /\ main_error # NoError
        /\ weights = Uninitialised
        /\ agents = << >>
        /\ \A w \in Workers : ~Started(w)

\* C7 (as claimed): on a resume, when the first thread is about to be started
\* the estimator parameters are those of the checkpoint and the counters are
\* the persisted ones.
C7_ResumeKeepsRestoredParameters ==
    ( /\ main_pc = "start"
      /\ main_i = 0
      /\ Len(agents) >= 1
      /\ python_vars # NoPickle ) =>
        /\ weights = ckpt_model
        /\ STEP_COUNTER = At(python_vars, 0)
        /\ EPISODE_COUNTER = At(python_vars, 1)

C9_SaveCheckpointCompletes ==
    \A w \in Workers :
        /\ error[w] # "AttributeError"
        /\ pc[w] = "ck_logs" => action_logs[ck_key[w]].kind = "tree"

\* C10 (as claimed): a log document is read and written by its own worker
\* only.
C10_LogTouchedByOwnerOnly ==
    \A w \in Workers, k \in Workers :
        (pc[w] = "ck_logs" /\ ck_key[w] = k /\ action_logs[k] # None) => k = w

\* C16 (as claimed): the resource totals of the entry save_action_log
\* appends are the mineral and the gas counter of the episode's final
\* transition, and a trace record carries the mineral and the gas counter of
\* its step.
C16_LogCarriesResourceTotals ==
    \A w \in Workers :
        pc[w] = "log_prune" =>
            LET entry == Last(WorkingTree(w).episodes)
                states == replay_states[w]
            IN  /\ entry.total_collected_minerals = At(Last(states), 3)
                /\ entry.total_collected_gas = At(Last(states), 4)
                /\ Len(entry.actions) = Len(states)
                /\ \A i \in 1 .. Len(states) :
                      entry.actions[i] = << At(states[i], 3), At(states[i], 4) >>

\* save_checkpoint is running in worker w
InCheckpoint(w) == pc[w] \in {"ck_pickle", "ck_model", "ck_logs"}

\* the log document of w holds an entry for global episode m
Logged(w, m) ==
    /\ action_logs[w] \notin {None, Absent}
    /\ \E i \in 1 .. Len(action_logs[w].episodes) :
          action_logs[w].episodes[i].num_global = m

\* C17: while no update fails, save_checkpoint runs only for an episode
\* number that is a multiple of CHECKPOINT, in the worker that captured that
\* number and in no other, after the episode's log entry was appended and
\* the buffers were cleared; reset() starts it only as its last statement,
\* and starts it there exactly when the captured number is a multiple.
C17_CheckpointTrigger ==
    /\ [](\A w \in Workers :
            InCheckpoint(w) =>
                /\ global_episode[w] % CHECKPOINT = 0
                /\ global_episode[w] = Last(episode_ids[w])
                /\ replay_states[w] = << >>
                /\ replay_actions[w] = << >>
                /\ Logged(w, global_episode[w]))
    /\ [](\A w \in Workers, v \in Workers :
            (w # v /\ InCheckpoint(w) /\ InCheckpoint(v)) =>
                global_episode[w] # global_episode[v])
    /\ [][\A w \in Workers :
            /\ (pc[w] = "r_finish" /\ pc'[w] # "r_finish") =>
                  (InCheckpoint(w)' <=> global_episode[w] % CHECKPOINT = 0)
            /\ (InCheckpoint(w)' /\ ~InCheckpoint(w)) => pc[w] = "r_finish"
            /\ (InCheckpoint(w) /\ InCheckpoint(w)') =>
                  global_episode'[w] = global_episode[w]]_vars

\* one worker is writing the checkpoint of an episode whose number is a
\* multiple of CHECKPOINT while the other has finished the reset() of an
\* episode whose number is not, without a checkpoint
C17_Witness ==
    \E w \in Workers, v \in Workers :
        /\ pc[w] = "ck_model"
        /\ global_episode[w] = Last(episode_ids[w])
        /\ episode_ids[v] # << >>
        /\ Last(episode_ids[v]) % CHECKPOINT # 0
        /\ pc[v] = "step"
        /\ replay_states[v] = << >>

\* C20 (as claimed): with two workers running and the step counter below
\* MAX_STEPS_TOTAL when the threads were started, the step counter never
\* exceeds MAX_STEPS_TOTAL, and no worker is recording a transition or
\* incrementing the counter once it has reached MAX_STEPS_TOTAL.
C20_StepCounterNeverExceedsMax ==
    (ThreadsRunning /\ Len(agents) >= 2 /\ At(start_counters, 0) < MAX_STEPS_TOTAL) =>
        /\ STEP_COUNTER <= MAX_STEPS_TOTAL
        /\ \A w \in Workers :
              pc[w] \in {"s_acquire", "s_store"} => STEP_COUNTER < MAX_STEPS_TOTAL

\* the training call of worker w failed
TrainFailed(w) == error[w] = "EstimatorError"

\* a document holds an entry for global episode m
HasEntry(document, m) ==
    \E i \in 1 .. Len(document.episodes) : document.episodes[i].num_global = m

\* C18: when the training call for a chunk fails, the worker's thread ends
\* with that failure and without holding the lock; it makes no further
\* training call and changes nothing afterwards; if the update was the one of
\* reset(), no log entry exists for the episode, in the registry or on disk,
\* and no checkpoint carries its number; the step that fails changes no other
\* worker, and the others are not held up by it.
C18_TrainFailureAbandonsUpdate ==
    /\ [](\A w \in Workers :
            TrainFailed(w) =>
                /\ pc[w] = "crashed"
                /\ w \notin LOCK
                /\ update_from[w] = "reset" =>
                      /\ Last(episode_ids[w]) = global_episode[w]
                      /\ ~HasEntry(WorkingTree(w), global_episode[w])
                      /\ ~HasEntry(log_files[w], global_episode[w])
                      /\ \/ python_vars = NoPickle
                         \/ At(python_vars, 1) # global_episode[w])
    /\ [][\A w \in Workers :
            /\ TrainFailed(w) =>
                  /\ pc'[w] = "crashed"
                  /\ batch'[w] = batch[w]
                  /\ action_logs'[w] = action_logs[w]
                  /\ replay_states'[w] = replay_states[w]
            /\ (TrainFailed(w)' /\ ~TrainFailed(w)) =>
                  /\ weights' = weights
                  /\ \A v \in Workers \ {w} :
                        pc'[v] = pc[v] /\ error'[v] = error[v]]_vars

\* the training call for the first chunk of an episode due for a checkpoint
\* failed in one worker; the other worker has since completed the update of
\* a later episode
C18_Witness ==
    \E w \in Workers, v \in Workers :
        /\ TrainFailed(w)
        /\ update_from[w] = "reset"
        /\ batch[w] = 0
        /\ batch[w] + 1 < NUM_BATCHES
        /\ CheckpointDue(global_episode[w])
        /\ pc[v] = "r_finish"
        /\ global_episode[v] > global_episode[w]

\* the buffer of worker 0 in the order step() recorded it, at any point of
\* update()
ChronologicalBuffer ==
    IF update_locals.stage \in {"arrays", "split"}
    THEN Reverse(replay_states[0])
    ELSE replay_states[0]

RewardsRecorded ==
    [i \in 1 .. Len(ChronologicalBuffer) |-> At(ChronologicalBuffer[i], 2)]

\* C11 (as claimed): the return at reversed index 0 is R and the return at
\* reversed index i > 0 is reward + discount * return[i-1], where the reward
\* is the one of the worked example: for chronological rewards 1, 2, 3 and
\* R = 10 the returns are 10, 3 + 0.99 * 10 and 2 + 0.99 * 12.9, so the
\* reward added at reversed index i is the one recorded at reversed index
\* i - 1.  Returns are numerators over 100 ^ i.
C11_ReturnRecurrence ==
    update_locals.stage = "arrays" =>
        LET T == Len(RewardsRecorded)
            return == update_locals.cumulated_rewards
        IN  /\ return[1] = update_locals.R
            /\ \A i \in 1 .. (T - 1) :
                  return[i + 1] = RewardsRecorded[T - i + 1] * Pow(100, i)
                                      + 99 * return[i]
            /\ (RewardsRecorded = << 1, 2, 3 >> /\ update_locals.R = 10) =>
                  return = << 10, 1290, 147710 >>

\* C12: R is 0 and the estimator is not asked for a value when the last
\* transition recorded is terminal; otherwise R is the value the estimator
\* returns for it.
C12_TerminalBootstrap ==
    update_locals.stage \notin {"none", "called"} =>
        IF At(Last(ChronologicalBuffer), 5)
        THEN update_locals.R = 0 /\ ~update_locals.value_queried
        ELSE update_locals.R = update_locals.value /\ update_locals.value_queried

\* an update on a terminal trajectory for whose last state the estimator
\* would have returned 10 has computed its arrays
C12_Witness ==
    /\ update_locals.stage = "arrays"
    /\ At(Last(ChronologicalBuffer), 5)
    /\ update_locals.value = 10
    /\ update_locals.R = 0
    /\ update_locals.cumulated_rewards[1] = 0

RECURSIVE Concat(_)
Concat(chunks) ==
    IF chunks = << >> THEN << >> ELSE Head(chunks) \o Concat(Tail(chunks))

\* C13: the NUM_BATCHES chunks are contiguous and in order and hold every
\* row exactly once (their concatenation is the array that was split), and
\* the chunks of the returns are cut at the same points as the chunks of the
\* rows: entry k of returns chunk j is the return of row k of rows chunk j.
C13_BatchCoverage ==
    update_locals.stage \in {"split", "returned"} =>
        LET T == Len(replay_states[0])
            rows == update_locals.rows
            returns == update_locals.cumulated_rewards
            reversed == Reverse(ChronologicalBuffer)
        IN  /\ Len(rows) = NUM_BATCHES
            /\ Len(returns) = NUM_BATCHES
            /\ Concat(rows) = [k \in 1 .. T |-> k - 1]
            /\ Len(Concat(returns)) = T
            /\ \A j \in 1 .. NUM_BATCHES :
                  /\ Len(returns[j]) = Len(rows[j])
                  /\ \A k \in 1 .. Len(rows[j]) :
                        returns[j][k] =
                            CumulatedReward(reversed, update_locals.R, rows[j][k])

\* a trajectory longer than NUM_BATCHES whose length is no multiple of it
\* has been split
C13_Witness ==
    /\ update_locals.stage = "split"
    /\ Len(replay_states[0]) > NUM_BATCHES
    /\ Len(replay_states[0]) % NUM_BATCHES # 0
    /\ Len(update_locals.rows[1]) # Len(update_locals.rows[NUM_BATCHES])

\* C15 (as claimed): the total reward update() returns is the sum of the
\* rewards recorded in all transitions of the trajectory.
C15_TotalRewardIsSumOfRewards ==
    update_locals.stage = "returned" =>
        update_locals.total_rewards = SumSeq(RewardsRecorded)

\* the schedule that is linear in the counter, 1 - EXPLORATION_RATE at 0 and
\* 1 at MAX_STEPS_TOTAL, as numerator and denominator
LinearSchedule(counter) ==
    << (EXPLORATION_RATE[2] - EXPLORATION_RATE[1]) * MAX_STEPS_TOTAL
           + EXPLORATION_RATE[1] * counter,
       EXPLORATION_RATE[2] * MAX_STEPS_TOTAL >>

\* C19 (as claimed): the schedule value step() uses is linear in the step
\* counter it was computed from, 1 - EXPLORATION_RATE for counter 0 and
\* exactly 1 for counter MAX_STEPS_TOTAL.
C19_ExplorationSchedule ==
    step_locals.stage \in {"chosen", "recorded", "returned"} =>
        LET explore == step_locals.explore
            claimed == LinearSchedule(step_locals.counter)
        IN  /\ explore[1] * claimed[2] = claimed[1] * explore[2]
            /\ step_locals.counter = 0 =>
                  explore[1] * EXPLORATION_RATE[2] =
                      (EXPLORATION_RATE[2] - EXPLORATION_RATE[1]) * explore[2]
            /\ step_locals.counter = MAX_STEPS_TOTAL => explore[1] = explore[2]

\* the local indices of the episodes of worker 0 whose entry has a trace
Traced ==
    { action_logs[0].episodes[i].num_agent :
        i \in { k \in 1 .. Len(action_logs[0].episodes) :
                  action_logs[0].episodes[k].actions # << >> } }

\* the DETAILED_LOGS episodes of worker 0 with the most minerals, with the
\* most gas (counter p of the final transition), and the most recent ones
TopBy(p) ==
    { i \in 1 .. Len(logged[0]) :
        Cardinality({ j \in 1 .. Len(logged[0]) :
            At(logged[0][j].final, p) > At(logged[0][i].final, p) })
            < DETAILED_LOGS }
MostRecent == { i \in 1 .. episodes[0] : i > episodes[0] - DETAILED_LOGS }

\* the document of worker 0 before its last entry was appended, and that
\* entry
Before == Tree(SubSeq(action_logs[0].episodes, 1, Len(action_logs[0].episodes) - 1))
Newest == Last(action_logs[0].episodes)

\* kept_episodes as the last save_action_log computed it from the stored
\* attributes
Retained ==
    KeptEpisodes(
        MineralsPerEpisode(Before, Newest.num_agent, Newest.total_collected_minerals),
        GasPerEpisode(Before, Newest.num_agent, Newest.total_collected_gas),
        Newest.num_agent)

\* C14 (as claimed): after more than 3 * DETAILED_LOGS appends with pairwise
\* distinct mineral totals and pairwise distinct gas totals the episodes
\* that carry a trace are exactly those with the DETAILED_LOGS highest
\* mineral totals, those with the DETAILED_LOGS highest gas totals and the
\* DETAILED_LOGS most recent ones; every other entry has an empty trace, and
\* the summary attributes of every entry are as they were appended.
C14_RetentionKeepsTopAndRecent ==
    (pc[0] = "r_finish" /\ Len(logged[0]) > 3 * DETAILED_LOGS
        /\ Cardinality(MineralsLogged(0)) = Len(logged[0])
        /\ Cardinality(GasLogged(0)) = Len(logged[0])) =>
        /\ Traced = TopBy(3) \cup TopBy(4) \cup MostRecent
        /\ Len(action_logs[0].episodes) = Len(logged[0])
        /\ \A i \in 1 .. Len(logged[0]) :
              [action_logs[0].episodes[i] EXCEPT !.actions = << >>] =
                  [logged[0][i].entry EXCEPT !.actions = << >>]

\* C26 (as claimed): every chunk but the last has T div NUM_BATCHES rows and
\* the last has T div NUM_BATCHES + T mod NUM_BATCHES rows.
C26_LastChunkAbsorbsRemainder ==
    update_locals.stage \in {"split", "returned"} =>
        LET T == Len(replay_states[0])
            rows == update_locals.rows
        IN  /\ \A j \in 1 .. (NUM_BATCHES - 1) :
                  Len(rows[j]) = T \div NUM_BATCHES
            /\ Len(rows[NUM_BATCHES]) =
                  (T \div NUM_BATCHES) + (T % NUM_BATCHES)

\* C26 (amended): the chunks have near-equal size with the first chunks
\* absorbing the remainder: the first T mod NUM_BATCHES chunks have
\* T div NUM_BATCHES + 1 rows and the others T div NUM_BATCHES rows, for the
\* rows and for the returns alike.
C26_FirstChunksAbsorbRemainder ==
    update_locals.stage \in {"split", "returned"} =>
        LET T == Len(replay_states[0])
            size(j) == (T \div NUM_BATCHES)
                           + (IF j <= T % NUM_BATCHES THEN 1 ELSE 0)
        IN  \A j \in 1 .. NUM_BATCHES :
                /\ Len(update_locals.rows[j]) = size(j)
                /\ Len(update_locals.cumulated_rewards[j]) = size(j)

\* a trajectory whose length leaves a remainder has been split: the first
\* chunk has one row more than the last
C26_Witness ==
    /\ update_locals.stage = "returned"
    /\ Len(replay_states[0]) % NUM_BATCHES # 0
    /\ Len(update_locals.rows[1]) = (Len(replay_states[0]) \div NUM_BATCHES) + 1
    /\ Len(update_locals.rows[NUM_BATCHES]) = Len(replay_states[0]) \div NUM_BATCHES

\* the action step() recorded last
LastRecorded == Last(replay_actions[0])

\* step() has chosen an action that takes a screen argument
ScreenActionChosen ==
    \E k \in 1 .. Len(ActionArgs(step_locals.action_id)) :
        ActionArgs(step_locals.action_id)[k] = "screen"

\* C24 (as claimed): for a greedily chosen flattened index f the target
\* stored in the transition is (f div width, f mod width), and update() sets
\* the one-hot position f for that transition.
C24_SpatialIndexRoundTrip ==
    (step_locals.stage = "returned" /\ update_locals.stage \in {"rows", "raised"}
        /\ ~step_locals.random_position /\ ScreenActionChosen) =>
        LET f == step_locals.spatial_argmax
        IN  /\ At(LastRecorded, 1) =
                  << f \div A3C_SCREEN_SIZE_X, f % A3C_SCREEN_SIZE_X >>
            /\ update_locals.stage = "rows"
            /\ update_locals.action_rows[1].has_spatial_action = 1
            /\ update_locals.action_rows[1].spatial_action_selected = f

\* position of an action id in EXECUTABLE_ACTIONS_IDS, from 1
Position(id) == CHOOSE k \in 1 .. Len(EXECUTABLE_ACTIONS_IDS) :
                    EXECUTABLE_ACTIONS_IDS[k] = id

\* the legal actions of the observation step() was called with
Legal ==
    { id \in step_locals.available_actions :
        \E k \in 1 .. Len(EXECUTABLE_ACTIONS_IDS) : EXECUTABLE_ACTIONS_IDS[k] = id }

\* C25: when the legal set of the observation is not empty, the action
\* step() chooses, records and returns is in the legal set recorded with it,
\* which is the legal set of the observation; without the exploration
\* override it is the legal action of highest probability, the first such in
\* the order of the action-id list; and the legality row update() builds has
\* 1 exactly at the positions of the recorded legal ids.
C25_LegalAction ==
    (step_locals.stage \in {"chosen", "recorded", "returned"} /\ Legal # {}) =>
        /\ step_locals.action_id \in Legal
        /\ ~step_locals.random_action =>
              \A id \in Legal :
                  LET p == step_locals.non_spatial_action
                  IN  \/ p[Position(id)] < p[Position(step_locals.action_id)]
                      \/ /\ p[Position(id)] = p[Position(step_locals.action_id)]
                         /\ Position(step_locals.action_id) <= Position(id)
        /\ step_locals.stage \in {"recorded", "returned"} =>
              /\ At(LastRecorded, 0) = step_locals.action_id
              /\ At(LastRecorded, 2) = Legal
              /\ At(LastRecorded, 0) \in At(LastRecorded, 2)
        /\ step_locals.stage = "returned" =>
              At(step_locals.returned, 0) = At(LastRecorded, 0)
        /\ update_locals.stage = "rows" =>
              \A k \in 1 .. Len(EXECUTABLE_ACTIONS_IDS) :
                  update_locals.action_rows[1].valid_non_spatial_action[k] = 1
                      <=> EXECUTABLE_ACTIONS_IDS[k] \in At(LastRecorded, 2)

\* a greedy choice among tied legal actions, with an action that is not
\* available rated higher than the chosen one, has gone through update()
C25_Witness ==
    /\ step_locals.stage = "returned"
    /\ update_locals.stage = "rows"
    /\ ~step_locals.random_action
    /\ \E id \in Legal \ {step_locals.action_id} :
          step_locals.non_spatial_action[Position(id)] =
              step_locals.non_spatial_action[Position(step_locals.action_id)]
    /\ \E k \in 1 .. Len(EXECUTABLE_ACTIONS_IDS) :
          /\ EXECUTABLE_ACTIONS_IDS[k] \notin step_locals.available_actions
          /\ step_locals.non_spatial_action[k] >
                 step_locals.non_spatial_action[Position(step_locals.action_id)]

\* every cell of the grid, as (row, column)
WholeGrid ==
    { << r, c >> : r \in 0 .. (A3C_SCREEN_SIZE_Y - 1),
                   c \in 0 .. (A3C_SCREEN_SIZE_X - 1) }

\* C28 (as claimed): when the position override fires, the cells the
\* replacement target is drawn from are all cells of the grid, the last row
\* and the last column included.
C28_RandomPositionCoversGrid ==
    (step_locals.stage \in {"chosen", "recorded", "returned"}
        /\ step_locals.random_position) =>
        step_locals.targets = WholeGrid

\* C22: whenever save_action_log has returned, at most 3 * DETAILED_LOGS
\* entries of the worker's document carry a trace, whatever the totals were
\* (equal totals included) and however many episodes were logged.
C22_BoundedRetention ==
    \A w \in Workers :
        (pc[w] = "r_finish" /\ action_logs[w].kind = "tree") =>
            Cardinality({ i \in 1 .. Len(action_logs[w].episodes) :
                            action_logs[w].episodes[i].actions # << >> })
                <= 3 * DETAILED_LOGS

\* more than 3 * DETAILED_LOGS episodes were logged, two of them with the
\* same stored mineral total, and entries have been stripped
C22_Witness ==
    /\ pc[0] = "r_finish"
    /\ Len(action_logs[0].episodes) > 3 * DETAILED_LOGS
    /\ \E i \in 1 .. Len(action_logs[0].episodes),
          j \in 1 .. Len(action_logs[0].episodes) :
          /\ i # j
          /\ action_logs[0].episodes[i].total_collected_minerals =
                 action_logs[0].episodes[j].total_collected_minerals
          /\ action_logs[0].episodes[i].actions = << >>
    /\ Traced # {}

\* C23 (as claimed): whenever save_action_log has returned, every episode in
\* the retained set it computed (the DETAILED_LOGS best by each stored total
\* under the stable descending sort with the new episode listed first, and
\* the DETAILED_LOGS most recent) has the complete trace it was appended
\* with, the newly appended episode included.
C23_TraceKeptWhileWanted ==
    (pc[0] = "r_finish" /\ action_logs[0].kind = "tree") =>
        /\ Newest.actions = Last(logged[0]).entry.actions
        /\ Newest.actions # << >>
        /\ \A i \in 1 .. Len(action_logs[0].episodes) :
              action_logs[0].episodes[i].num_agent \in Retained =>
                  /\ action_logs[0].episodes[i].actions # << >>
                  /\ action_logs[0].episodes[i].actions = logged[0][i].entry.actions

\* C21 (as claimed): the checkpoint on disk never regresses: every write of
\* python_vars.pickle by save_checkpoint stores a step counter and an episode
\* counter that are at least the ones it replaces, so a worker holding an
\* older multiple of CHECKPOINT never overwrites the checkpoint of a newer one.
C21_CheckpointNeverRegresses ==
    [][ (python_vars # NoPickle /\ python_vars' # python_vars) =>
            /\ At(python_vars', 0) >= At(python_vars, 0)
            /\ At(python_vars', 1) >= At(python_vars, 1) ]_vars

\* the places of a worker inside a `with A3CAgent.LOCK:` block that spans
\* more than one step: between the load and the store of a counter
InCounterSection(w) == pc[w] \in {"r_store", "s_store"}

\* w waits to enter a `with A3CAgent.LOCK:` block
WaitsForLock(w) == pc[w] \in {"r_acquire", "s_acquire", "u_snapshot"}

\* C27: the lock is held by at most one worker and exactly while that worker
\* is between the load and the store of a shared counter (the snapshot of
\* update() takes and releases it in one step); so it is never held during
\* the estimator, environment, log or checkpoint calls, never entered by a
\* worker that already holds it, and its holder can always go on to release
\* it, whatever the other workers wait for.
C27_NarrowLocking ==
    /\ Cardinality(LOCK) <= 1
    /\ \A w \in Workers : w \in LOCK <=> InCounterSection(w)
    /\ \A w \in LOCK : ~WaitsForLock(w)
    /\ \A w \in LOCK :
          ENABLED (ResetStoreRelease(w) \/ StepStoreRelease(w))

\* one worker holds the lock in the counter section of reset() while the
\* other one waits to enter its own locked block
C27_Witness ==
    \E w \in Workers, v \in Workers :
        /\ w # v
        /\ LOCK = {w}
        /\ pc[w] = "r_store"
        /\ WaitsForLock(v)

====
